---- MODULE Spec2Model ----
(***************************************************************************)
(* Conway's Game of Life for small targets (src/targets/6502/c64/life.c).  *)
(*                                                                         *)
(* The model follows main(): fill_screen(SPACE), get_values(),             *)
(* fill_screen(SPACE), init_screen(), calculate().  Every loop of the      *)
(* program is modelled at the granularity of its loop tests: one state per *)
(* evaluation of a loop condition, one step per loop body execution.       *)
(*                                                                         *)
(* The screen is the flat byte array at SCREEN_BASE; screen[r][c] is the   *)
(* byte at offset r * WIDTH + c, as rows of WIDTH bytes lie one after the  *)
(* other.  The grid of the model is smaller than the 40 x 25 screen of the *)
(* program; WIDTH and HEIGHT are the bounds that say how much smaller.     *)
(***************************************************************************)
EXTENDS Integers, FiniteSets, Sequences, TLC

\* ------------------------------------------------------------------------
\* Constants of the program
\* ------------------------------------------------------------------------
ALIVE == 88
DEAD == 32
SPACE == 32

\* Screen size (scaled down from 40 x 25) and the largest iteration count
\* entered by the user (scaled down from 65535).
WIDTH == 5
HEIGHT == 5
MaxIter == 2

\* The values of _limit the model draws from: the three values print_usage
\* documents and a negative number, which scanf("%d") accepts as well; and
\* the results of rand() it draws from: the smallest, the largest (32767) and
\* the documented "pretty good value", so that rand() < _limit is decided
\* both ways, and at equality, for each positive _limit.  With _limit <= 0
\* no cell is DEAD; with 23000 and with 32767 every grid can come out.
RandValues == {0, 23000, 32767}
Limits == {-1, 0, 23000, 32767}

\* Bytes the screen memory may hold before the program has written it.
GarbageBytes == {0, DEAD, ALIVE, 255}

Byte(n) == n % 256
Word(n) == n % 65536

Offsets == 0 .. (HEIGHT * WIDTH - 1)
Idx(r, c) == r * WIDTH + c

Rows == 0 .. (HEIGHT - 1)
Cols == 0 .. (WIDTH - 1)
Cells == Rows \X Cols
Interior == {p \in Cells : p[1] >= 1 /\ p[1] <= HEIGHT - 2 /\ p[2] >= 1 /\ p[2] <= WIDTH - 2}
Border == Cells \ Interior

VARIABLES
    screen,        \* the screen buffer, offset -> byte
    field_count,   \* _field_count, offset -> byte
    limit,         \* _limit
    iterations,    \* _iterations
    pc,            \* position in main and in the function it is running
    offset,        \* fill_screen's loop counter
    y, x,          \* the BYTE loop counters of the running function
    i,             \* calculate's loop counter
    start,         \* history: the screen when calculate() was called
    prev,          \* history: the screen when the current generation step began
    touched        \* history: the array subscripts the last step used

vars == <<screen, field_count, limit, iterations, pc, offset, y, x, i, start, prev, touched>>

NoAccess == [rd |-> {}, wr |-> {}, fc |-> {}]

\* ------------------------------------------------------------------------
\* Array access
\* ------------------------------------------------------------------------
\* screen[r][c]: the byte at offset r * WIDTH + c of the buffer.  An offset
\* outside the buffer is outside the screen memory; no run of the program
\* reads one (C10_NoOutOfRange); the value 0 stands for it.
ScreenAt(s, r, c) == IF Idx(r, c) \in Offsets THEN s[Idx(r, c)] ELSE 0

\* ------------------------------------------------------------------------
\* count_neighbours
\* ------------------------------------------------------------------------
NeighbourOffsetsWithCentre == (-1 .. 1) \X (-1 .. 1)

NeighbourOffsets == ((-1 .. 1) \X (-1 .. 1)) \ {<<0, 0>>}

count_neighbours(s, cy, cx) ==
    Cardinality({d \in NeighbourOffsets : ScreenAt(s, cy + d[1], cx + d[2]) = ALIVE})

NeighbourCells(cy, cx) == {<<cy + d[1], cx + d[2]>> : d \in NeighbourOffsets}

\* ------------------------------------------------------------------------
\* fill_screen
\* ------------------------------------------------------------------------
FillCondShort(o) == o < HEIGHT * WIDTH - 1

FillCond(o) == o < HEIGHT * WIDTH

FillStep(c, next) ==
    IF FillCond(offset)
    THEN /\ screen' = [screen EXCEPT ![offset] = c]
         /\ offset' = offset + 1
         /\ touched' = [NoAccess EXCEPT !.wr = {<<offset \div WIDTH, offset % WIDTH>>}]
         /\ pc' = pc
    ELSE /\ pc' = next
         /\ offset' = 0
         /\ touched' = NoAccess
         /\ screen' = screen

\* main: the first fill_screen(SPACE), then print_usage()
Fill1 ==
    /\ pc = "fill1"
    /\ FillStep(SPACE, "get_values")
    /\ UNCHANGED <<field_count, limit, iterations, y, x, i, start, prev>>

\* get_values: scanf reads _limit and _iterations; main then calls fill_screen
GetValues ==
    /\ pc = "get_values"
    /\ \E l \in Limits : limit' = l
    /\ \E n \in 0 .. MaxIter : iterations' = n
    /\ pc' = "fill2"
    /\ offset' = 0
    /\ touched' = NoAccess
    /\ UNCHANGED <<screen, field_count, y, x, i, start, prev>>

InitFirst == 1

\* main: the second fill_screen(SPACE), then the call of init_screen
Fill2 ==
    /\ pc = "fill2"
    /\ FillStep(SPACE, "init_y")
    /\ y' = IF FillCond(offset) THEN y ELSE InitFirst
    /\ UNCHANGED <<field_count, limit, iterations, x, i, start, prev>>

\* ------------------------------------------------------------------------
\* init_screen
\* ------------------------------------------------------------------------
InitRowCond(r) == r < HEIGHT - 1

InitColCondWide(c) == c < WIDTH

InitColCond(c) == c < WIDTH - 1

\* the character init_screen stores for one result of rand()
InitChar(r, l) == IF r < l THEN DEAD ELSE ALIVE

\* for (BYTE y = 1; y < HEIGHT - 1; y++); on exit main calls calculate()
InitRow ==
    /\ pc = "init_y"
    /\ IF InitRowCond(y)
       THEN /\ x' = InitFirst
            /\ pc' = "init_x"
            /\ UNCHANGED <<y, i, start>>
       ELSE /\ pc' = "calculate"
            /\ i' = 0
            /\ start' = screen
            /\ y' = 0
            /\ x' = 0
    /\ touched' = NoAccess
    /\ UNCHANGED <<screen, field_count, limit, iterations, offset, prev>>

\* for (BYTE x = 1; x < WIDTH - 1; x++) and the loop body
InitCell ==
    /\ pc = "init_x"
    /\ IF InitColCond(x)
       THEN /\ \E r \in RandValues :
                 screen' = [screen EXCEPT ![Idx(y, x)] = InitChar(r, limit)]
            /\ touched' = [NoAccess EXCEPT !.wr = {<<y, x>>}]
            /\ x' = Byte(x + 1)
            /\ UNCHANGED <<y, pc>>
       ELSE /\ y' = Byte(y + 1)
            /\ pc' = "init_y"
            /\ touched' = NoAccess
            /\ UNCHANGED <<screen, x>>
    /\ UNCHANGED <<field_count, limit, iterations, offset, i, start, prev>>

\* ------------------------------------------------------------------------
\* calculate
\* ------------------------------------------------------------------------
LoopCondInclusive(k, n) == k <= n

LoopCondDoWhile(k, n) == k = 0 \/ k < n

LoopCond(k, n) == k < n

CountFirstZero == 1 - 1

CountFirst == 1

\* for (unsigned int i = 0; i < _iterations; i++): the test, and the call of
\* count_field
Calculate ==
    /\ pc = "calculate"
    /\ IF LoopCond(i, iterations)
       THEN /\ pc' = "count_y"
            /\ y' = CountFirst
            /\ prev' = screen
       ELSE /\ pc' = "done"
            /\ UNCHANGED <<y, prev>>
    /\ touched' = NoAccess
    /\ UNCHANGED <<screen, field_count, limit, iterations, offset, x, i, start>>

\* ------------------------------------------------------------------------
\* count_field
\* ------------------------------------------------------------------------
CalcFirst == 1

CountRowCond(r) == r < HEIGHT - 1

CountColCondShort(c) == c < WIDTH - 2

CountColCond(c) == c < WIDTH - 1

\* for (BYTE y = 1; y < HEIGHT - 1; y++); on exit calculate calls
\* calculate_field
CountRow ==
    /\ pc = "count_y"
    /\ IF CountRowCond(y)
       THEN /\ x' = CountFirst
            /\ pc' = "count_x"
            /\ y' = y
       ELSE /\ pc' = "apply_y"
            /\ y' = CalcFirst
            /\ x' = 0
    /\ touched' = NoAccess
    /\ UNCHANGED <<screen, field_count, limit, iterations, offset, i, start, prev>>

\* for (BYTE x = 1; x < WIDTH - 1; x++) and
\* _field_count[y][x] = count_neighbours(y, x)
CountCell ==
    /\ pc = "count_x"
    /\ IF CountColCond(x)
       THEN /\ field_count' =
                 [field_count EXCEPT ![Idx(y, x)] = Byte(count_neighbours(screen, y, x))]
            /\ touched' = [rd |-> NeighbourCells(y, x), wr |-> {}, fc |-> {<<y, x>>}]
            /\ x' = Byte(x + 1)
            /\ UNCHANGED <<y, pc>>
       ELSE /\ y' = Byte(y + 1)
            /\ pc' = "count_y"
            /\ touched' = NoAccess
            /\ UNCHANGED <<field_count, x>>
    /\ UNCHANGED <<screen, limit, iterations, offset, i, start, prev>>

\* ------------------------------------------------------------------------
\* calculate_field
\* ------------------------------------------------------------------------
CalcRowCond(r) == r < HEIGHT - 1

CalcColCond(c) == c < WIDTH - 1

\* BYTE count = _field_count[y][x]
StoredCountFresh(fc, s, cy, cx) == Byte(count_neighbours(s, cy, cx))

StoredCount(fc, s, cy, cx) == IF Idx(cy, cx) \in Offsets THEN fc[Idx(cy, cx)] ELSE 0

\* the value of screen[y][x] after the body of the loop
RuleSurviveFour(current, count) ==
    IF current = ALIVE
    THEN IF count < 2 \/ count > 4 THEN DEAD ELSE current
    ELSE IF count = 3 THEN ALIVE ELSE current

RuleCrowdedAtThree(current, count) ==
    IF current = ALIVE
    THEN IF count < 2 \/ count >= 3 THEN DEAD ELSE current
    ELSE IF count = 3 THEN ALIVE ELSE current

Rule(current, count) ==
    IF current = ALIVE
    THEN IF count < 2 \/ count > 3 THEN DEAD ELSE current
    ELSE IF count = 3 THEN ALIVE ELSE current

\* for (BYTE y = 1; y < HEIGHT - 1; y++); on exit calculate runs i++
CalcRow ==
    /\ pc = "apply_y"
    /\ IF CalcRowCond(y)
       THEN /\ x' = CalcFirst
            /\ pc' = "apply_x"
            /\ UNCHANGED <<y, i>>
       ELSE /\ pc' = "calculate"
            /\ i' = Word(i + 1)
            /\ y' = 0
            /\ x' = 0
    /\ touched' = NoAccess
    /\ UNCHANGED <<screen, field_count, limit, iterations, offset, start, prev>>

\* for (BYTE x = 1; x < WIDTH - 1; x++) and the loop body
CalcCell ==
    /\ pc = "apply_x"
    /\ IF CalcColCond(x)
       THEN LET count == StoredCount(field_count, screen, y, x)
                current == ScreenAt(screen, y, x)
                new == Rule(current, count)
            IN  /\ screen' = [screen EXCEPT ![Idx(y, x)] = new]
                /\ touched' = [rd |-> {<<y, x>>},
                               wr |-> IF new # current THEN {<<y, x>>} ELSE {},
                               fc |-> {<<y, x>>}]
                /\ x' = Byte(x + 1)
                /\ UNCHANGED <<y, pc>>
       ELSE /\ y' = Byte(y + 1)
            /\ pc' = "apply_y"
            /\ touched' = NoAccess
            /\ UNCHANGED <<screen, x>>
    /\ UNCHANGED <<field_count, limit, iterations, offset, i, start, prev>>

\* ------------------------------------------------------------------------
\* The program
\* ------------------------------------------------------------------------
\* main calls fill_screen, print_usage, get_values, init_screen and
\* calculate: Next is the run of main.  clear_count and play_with_field are
\* defined in life.c and called by no function of it, so Next has no step
\* of them; they are modelled below, after Spec, for a caller of the file's
\* functions.
\* The screen memory holds what was there before the program ran;
\* _field_count, _limit and _iterations are zero-initialised globals.
Init ==
    /\ \E g \in GarbageBytes : screen = [o \in Offsets |-> g]
    /\ field_count = [o \in Offsets |-> 0]
    /\ limit = 0
    /\ iterations = 0
    /\ pc = "fill1"
    /\ offset = 0
    /\ y = 0
    /\ x = 0
    /\ i = 0
    /\ start = screen
    /\ prev = screen
    /\ touched = NoAccess

Next ==
    \/ Fill1
    \/ GetValues
    \/ Fill2
    \/ InitRow
    \/ InitCell
    \/ Calculate
    \/ CountRow
    \/ CountCell
    \/ CalcRow
    \/ CalcCell

Spec == Init /\ [][Next]_vars

\* main runs to its end: no step of a sequential program waits for another
FairSpec == Init /\ [][Next]_vars /\ WF_vars(Next)

\* ------------------------------------------------------------------------
\* Functions main does not call
\* ------------------------------------------------------------------------
\* fill_screen(c), run from its first to its last loop test
fill_screen(s, c) == [o \in Offsets |-> IF FillCond(o) THEN c ELSE s[o]]

\* clear_count: every entry of _field_count, border entries included, is 0
clear_count(fc) == [o \in Offsets |-> 0]

\* the values of c for which the loop of play_with_field runs its body
PlayChars == {c \in 0 .. 255 : c < 255}

\* play_with_field: for (BYTE c = 0; c < 255; c++) fill_screen(c).  Every
\* call writes the same offsets, so the screen after the loop is the screen
\* after the call for the last c.
play_with_field(s) ==
    fill_screen(s, CHOOSE c \in PlayChars : \A d \in PlayChars : d <= c)

\* a call of clear_count while no function of main is running
ClearCount ==
    /\ pc = "done"
    /\ field_count' = clear_count(field_count)
    /\ touched' = [NoAccess EXCEPT !.fc = Cells]
    /\ UNCHANGED <<screen, limit, iterations, pc, offset, y, x, i, start, prev>>

\* a call of play_with_field while no function of main is running
PlayWithField ==
    /\ pc = "done"
    /\ screen' = play_with_field(screen)
    /\ touched' = [NoAccess EXCEPT !.wr = Cells]
    /\ UNCHANGED <<field_count, limit, iterations, pc, offset, y, x, i, start, prev>>

\* the run of main, followed by calls of the functions main does not call
CallerNext == Next \/ ClearCount \/ PlayWithField

CallerSpec == Init /\ [][CallerNext]_vars

\* ------------------------------------------------------------------------
\* Reference definitions of the Game of Life, used to state the properties
\* ------------------------------------------------------------------------
Abs(n) == IF n < 0 THEN -n ELSE n

CellOf(o) == <<o \div WIDTH, o % WIDTH>>

At(s, p) == s[Idx(p[1], p[2])]

\* the cells of the grid next to p, found by their coordinates
Adjacent(p) ==
    {q \in Cells : q # p /\ Abs(q[1] - p[1]) <= 1 /\ Abs(q[2] - p[2]) <= 1}

AliveNeighbours(s, p) == Cardinality({q \in Adjacent(p) : At(s, q) = ALIVE})

\* the next state of one cell
LifeCell(s, p) ==
    LET n == AliveNeighbours(s, p)
    IN  IF n = 3 \/ (At(s, p) = ALIVE /\ n = 2) THEN ALIVE ELSE DEAD

\* the synchronous update: every interior cell from the old grid s, written
\* to a copy; border cells kept
LifeStep(s) ==
    [o \in Offsets |-> IF CellOf(o) \in Interior THEN LifeCell(s, CellOf(o)) ELSE s[o]]

RECURSIVE Generations(_, _)
Generations(s, n) == IF n = 0 THEN s ELSE Generations(LifeStep(s), n - 1)

\* the single-pass update in place, scanning from offset o on: every cell
\* sees the neighbours the scan has already rewritten
RECURSIVE InPlaceFrom(_, _)
InPlaceFrom(s, o) ==
    IF o \notin Offsets THEN s
    ELSE IF CellOf(o) \in Interior
         THEN InPlaceFrom([s EXCEPT ![o] = LifeCell(s, CellOf(o))], o + 1)
         ELSE InPlaceFrom(s, o + 1)

InPlaceStep(s) == InPlaceFrom(s, 0)

TwoValued(s) == \A o \in Offsets : s[o] \in {ALIVE, DEAD}

\* the grid whose ALIVE cells are exactly the cells of the set live
Pattern(s, live) == \A p \in Cells : At(s, p) = IF p \in live THEN ALIVE ELSE DEAD

HLine(c) == {<<c[1], c[2] - 1>>, c, <<c[1], c[2] + 1>>}
VLine(c) == {<<c[1] - 1, c[2]>>, c, <<c[1] + 1, c[2]>>}
BlinkerCentres == {c \in Interior : HLine(c) \subseteq Interior /\ VLine(c) \subseteq Interior}

Block(c) == {c, <<c[1], c[2] + 1>>, <<c[1] + 1, c[2]>>, <<c[1] + 1, c[2] + 1>>}
BlockCorners == {c \in Interior : Block(c) \subseteq Interior}

InFill == pc \in {"fill1", "get_values", "fill2"}
InInit == pc \in {"init_y", "init_x"}
InCount == pc \in {"count_y", "count_x"}
InApply == pc \in {"apply_y", "apply_x"}
InCalculate == pc = "calculate" \/ InCount \/ InApply \/ pc = "done"

\* a generation step has just been completed
StepDone == pc = "calculate" /\ i > 0

\* calculate_field is about to start
ApplyStarts == pc = "apply_y" /\ y = CalcFirst

\* ------------------------------------------------------------------------
\* Properties
\* ------------------------------------------------------------------------

\* C1: a generation step (count_field, then calculate_field) is the
\* synchronous update of the grid it started from: when the step is complete
\* the screen equals the grid a reference update writes into a separate copy,
\* so every interior cell depends only on itself and its eight neighbours as
\* they were before the step.
C1_StepIsSynchronous == StepDone => screen = LifeStep(prev)

\* C1 witness: a first step from a horizontal row of three ALIVE cells has
\* been completed, and its result differs from the single-pass update in place.
C1_Witness ==
    /\ StepDone
    /\ i = 1
    /\ \E c \in BlinkerCentres : Pattern(prev, HLine(c))
    /\ screen # InPlaceStep(prev)

\* C2: calculate_field applies the birth and survival rules with the stored
\* counts: after a step a cell that was DEAD is ALIVE iff it had exactly 3
\* ALIVE neighbours and is DEAD otherwise; a cell that was ALIVE is ALIVE
\* with 2 or 3 ALIVE neighbours and DEAD with any other number; and the count
\* the rule used is the one stored in _field_count.
C2_BirthAndSurvival ==
    StepDone =>
        \A p \in Interior :
            LET n == field_count[Idx(p[1], p[2])]
                before == At(prev, p)
                after == At(screen, p)
            IN  /\ n = AliveNeighbours(prev, p)
                /\ before = DEAD /\ n = 3 => after = ALIVE
                /\ before = DEAD /\ n # 3 => after = DEAD
                /\ before = ALIVE /\ n \in {2, 3} => after = ALIVE
                /\ before = ALIVE /\ n \in {0, 1, 4, 5, 6, 7, 8} => after = DEAD

\* C2 witness: one step has seen a birth, a DEAD cell with 2 and one with 4
\* neighbours, a survival and both kinds of death.
C2_Witness ==
    /\ StepDone
    /\ \E p \in Interior : At(prev, p) = DEAD /\ AliveNeighbours(prev, p) = 3
    /\ \E p \in Interior : At(prev, p) = DEAD /\ AliveNeighbours(prev, p) = 2
    /\ \E p \in Interior : At(prev, p) = DEAD /\ AliveNeighbours(prev, p) = 4
    /\ \E p \in Interior : At(prev, p) = ALIVE /\ AliveNeighbours(prev, p) \in {2, 3}
    /\ \E p \in Interior : At(prev, p) = ALIVE /\ AliveNeighbours(prev, p) < 2
    /\ \E p \in Interior : At(prev, p) = ALIVE /\ AliveNeighbours(prev, p) > 3

\* C3: from init_screen on, no step writes a border cell; every border cell
\* is DEAD, and during and after calculate() holds the value it had when
\* calculate() was called; calculate_field reads no border cell (border cells
\* are read only as neighbours, by count_field).
C3_BorderUntouched ==
    /\ InInit \/ InCalculate =>
           /\ touched.wr \cap Border = {}
           /\ \A b \in Border : At(screen, b) = DEAD
    /\ InCalculate => \A b \in Border : At(screen, b) = At(start, b)
    /\ InApply => touched.rd \cap Border = {}

\* C3 witness: calculate() has returned after a generation that changed the
\* grid and in which cells next to the border were ALIVE.
C3_Witness ==
    /\ pc = "done"
    /\ iterations > 0
    /\ screen # start
    /\ \E b \in Border : \E q \in Adjacent(b) : At(start, q) = ALIVE

\* C4: calculate() terminates, and when it returns it has run the generation
\* step exactly _iterations times: the loop counter equals _iterations and
\* the screen is the grid _iterations generations after the grid at call time.
C4_RunsAllIterations ==
    /\ <>(pc = "done")
    /\ [](pc = "done" => i = iterations /\ screen = Generations(start, iterations))

\* C4 witness: calculate() has returned after the largest iteration count
\* from a grid with ALIVE cells that was a fixed point from the start.
C4_Witness ==
    /\ pc = "done"
    /\ iterations = MaxIter
    /\ i = MaxIter
    /\ LifeStep(start) = start
    /\ \E p \in Interior : At(start, p) = ALIVE

\* C5: with _iterations = 0, calculate() runs no generation step, writes
\* neither the screen nor _field_count, and leaves the screen as it was when
\* calculate() was called.
C5_ZeroIterations ==
    InCalculate /\ iterations = 0 =>
        /\ pc \in {"calculate", "done"}
        /\ screen = start
        /\ touched = NoAccess
        /\ \A o \in Offsets : field_count[o] = 0

\* C5 witness: calculate() has returned with _iterations = 0 from a grid
\* that one generation would have changed.
C5_Witness ==
    /\ pc = "done"
    /\ iterations = 0
    /\ LifeStep(start) # start

\* C6: from a grid whose only ALIVE cells are a horizontal line of three
\* interior cells, the grid after an odd number of generations is the
\* vertical line through the same centre, and after an even number the
\* original grid; so calculate() returns the original grid for an even and
\* the vertical line for an odd _iterations.
C6_Blinker ==
    \A c \in BlinkerCentres :
        pc \in {"calculate", "done"} /\ Pattern(start, HLine(c)) =>
            /\ i % 2 = 0 => screen = start
            /\ i % 2 = 1 => Pattern(screen, VLine(c))
            /\ pc = "done" => i = iterations

\* C6 witness: calculate() has returned the horizontal line after two
\* generations.
C6_Witness ==
    /\ pc = "done"
    /\ iterations = 2
    /\ \E c \in BlinkerCentres : Pattern(start, HLine(c))
    /\ screen = start

\* C7: a grid whose only ALIVE cells are a 2 x 2 block of interior cells is a
\* fixed point: after every generation, and when calculate() returns, the
\* screen is the grid calculate() was called with.
C7_BlockIsStill ==
    \A c \in BlockCorners :
        pc \in {"calculate", "done"} /\ Pattern(start, Block(c)) => screen = start

\* C7 witness: calculate() has returned after the largest iteration count
\* from a block.
C7_Witness ==
    /\ pc = "done"
    /\ iterations = MaxIter
    /\ \E c \in BlockCorners : Pattern(start, Block(c))

\* C8: from the end of the second fill_screen(SPACE) on, through init_screen
\* and every state of calculate(), every cell of the screen is ALIVE or DEAD.
C8_CellsAliveOrDead == ~InFill => TwoValued(screen)

\* C8 witness: the second generation is in its apply phase and has rewritten
\* some but not all of its cells.
C8_Witness ==
    /\ pc = "apply_x"
    /\ i = 1
    /\ screen # prev
    /\ screen # LifeStep(prev)

\* C9: when calculate_field starts, every interior entry of _field_count is
\* the number of ALIVE neighbours of its cell in the screen as it is at that
\* moment, a number in 0 .. 8; count_field writes no screen cell and leaves
\* the screen as it was at the start of the generation.
C9_CountsAreFresh ==
    /\ ApplyStarts =>
           \A p \in Interior :
               /\ field_count[Idx(p[1], p[2])] = AliveNeighbours(screen, p)
               /\ field_count[Idx(p[1], p[2])] \in 0 .. 8
    /\ InCount \/ ApplyStarts => screen = prev /\ touched.wr = {}

\* C9 witness: calculate_field starts in the second generation, with a count
\* that differs from the one the first generation stored for the same cell.
C9_Witness ==
    /\ ApplyStarts
    /\ i = 1
    /\ \E p \in Interior : AliveNeighbours(screen, p) # AliveNeighbours(start, p)

\* C10: during calculate() every subscript used on screen and _field_count is
\* a cell of the grid, the cells count_neighbours reads are next to the cell
\* it counts for, and the loop counters stay inside the grid, so that
\* incrementing them never wraps a byte.
C10_NoOutOfRange ==
    InCalculate =>
        /\ touched.rd \cup touched.wr \cup touched.fc \subseteq Cells
        /\ \A p \in touched.fc : p \in Interior /\ touched.rd \subseteq Adjacent(p) \cup {p}
        /\ InCount \/ InApply => y \in Rows /\ y + 1 < 256
        /\ pc \in {"count_x", "apply_x"} => x \in Cols /\ x + 1 < 256

\* C10 witness: count_field has counted the last interior cell, whose
\* neighbours right and below are border cells.
C10_Witness ==
    /\ pc = "count_x"
    /\ y = HEIGHT - 2
    /\ x = WIDTH - 1
    /\ <<HEIGHT - 1, WIDTH - 1>> \in touched.rd

====
